---- MODULE Spec2Model ----
(***************************************************************************)
(* IpUtils (src/src/utils/ip-utils.ts): the IPv4 addressing engine.        *)
(*                                                                         *)
(* Text is a sequence of one-character strings.  A JavaScript Number that  *)
(* holds an integer is the pair <<hi, lo>> of value hi * 2^16 + lo with    *)
(* 0 <= lo < 2^16 (hi is negative for a negative number); NaN is <<>>.     *)
(* The 32-bit operators (<<, >>>, &, |, ~) convert their operands with     *)
(* ToInt32 / ToUint32 and take the shift count modulo 32, as ECMAScript    *)
(* defines them.                                                           *)
(***************************************************************************)
EXTENDS Integers, Sequences, FiniteSets, TLC

VARIABLES ip, cidr, parentCidr, limit, op, ret

vars == <<ip, cidr, parentCidr, limit, op, ret>>

(***************************************************************************)
(* Bounds of the explored inputs.                                          *)
(***************************************************************************)
\* longest part of an address text enumerated character by character
MaxPartLen == 3
\* largest number of dot-separated parts of an enumerated address text
MaxParts == 5
\* largest row limit passed explicitly to generateSubnetTable
MaxLimit == 3

(***************************************************************************)
(* JavaScript Numbers                                                      *)
(***************************************************************************)
W == 2^16

NaN == <<>>

isNaN(a) == a = NaN

Norm(hi, lo) == <<hi + (lo \div W), lo % W>>

\* the Number of a small integer literal
Num(n) == Norm(0, n)

Plus(a, b) == IF isNaN(a) \/ isNaN(b) THEN NaN ELSE Norm(a[1] + b[1], a[2] + b[2])

Minus(a, b) == IF isNaN(a) \/ isNaN(b) THEN NaN ELSE Norm(a[1] - b[1], a[2] - b[2])

\* i * a for a small integer i
Times(i, a) == IF isNaN(a) THEN NaN ELSE Norm(i * a[1] + ((i * a[2]) \div W), (i * a[2]) % W)

\* a <= b, a < b (false when either is NaN)
Le(a, b) == ~isNaN(a) /\ ~isNaN(b) /\ (a[1] < b[1] \/ (a[1] = b[1] /\ a[2] <= b[2]))

Lt(a, b) == ~isNaN(a) /\ ~isNaN(b) /\ (a[1] < b[1] \/ (a[1] = b[1] /\ a[2] < b[2]))

Min(a, b) == IF Lt(b, a) THEN b ELSE a

\* a decimal literal too large for one machine word: millions * 10^6 + rest
Dec(millions, rest) == Plus(Times(millions, Num(1000000)), Num(rest))

\* Math.pow(2, n) for an integer 0 <= n <= 32
MathPow2(n) == IF n < 16 THEN <<0, 2^n>> ELSE <<2^(n - 16), 0>>

ToUint32(a) == IF isNaN(a) THEN <<0, 0>> ELSE <<a[1] % W, a[2]>>

ToInt32(a) ==
  LET u == ToUint32(a)
  IN  <<IF u[1] >= W \div 2 THEN u[1] - W ELSE u[1], u[2]>>

RECURSIVE And16(_, _)
And16(x, y) ==
  IF x = 0 \/ y = 0 THEN 0
  ELSE (x % 2) * (y % 2) + 2 * And16(x \div 2, y \div 2)

\* a & b
BitAnd(a, b) ==
  LET x == ToUint32(a)
      y == ToUint32(b)
  IN  ToInt32(<<And16(x[1], y[1]), And16(x[2], y[2])>>)

\* a | b
BitOr(a, b) ==
  LET x == ToUint32(a)
      y == ToUint32(b)
  IN  ToInt32(<<x[1] + y[1] - And16(x[1], y[1]), x[2] + y[2] - And16(x[2], y[2])>>)

\* ~a
BitNot(a) ==
  LET x == ToUint32(a)
  IN  ToInt32(<<W - 1 - x[1], W - 1 - x[2]>>)

\* a << n: the shift count is taken modulo 32
Shl(a, n) ==
  LET x == ToUint32(a)
      k == n % 32
  IN  IF k >= 16
        THEN ToInt32(<<(x[2] % (2^(32 - k))) * 2^(k - 16), 0>>)
        ELSE ToInt32(<<(x[1] % (2^(16 - k))) * 2^k + ((x[2] * 2^k) \div W),
                       (x[2] * 2^k) % W>>)

\* a >>> n: the shift count is taken modulo 32
Ushr(a, n) ==
  LET x == ToUint32(a)
      k == n % 32
  IN  IF k >= 16
        THEN <<0, x[1] \div 2^(k - 16)>>
        ELSE <<x[1] \div 2^k, (x[1] % 2^k) * 2^(16 - k) + (x[2] \div 2^k)>>

(***************************************************************************)
(* Text                                                                    *)
(***************************************************************************)
Digits == <<"0", "1", "2", "3", "4", "5", "6", "7", "8", "9">>

IsDigit(c) == \E i \in 1..10 : Digits[i] = c

DigitVal(c) == (CHOOSE i \in 1..10 : Digits[i] = c) - 1

\* the white space parseInt skips
IsSpace(c) == c \in {" ", "\t", "\n", "\r"}

RECURSIVE Split(_, _)
\* text.split(sep) for a one-character separator
Split(text, sep) ==
  IF \A i \in 1..Len(text) : text[i] # sep THEN <<text>>
  ELSE LET i == CHOOSE j \in 1..Len(text) :
                  text[j] = sep /\ \A k \in 1..(j - 1) : text[k] # sep
       IN  <<SubSeq(text, 1, i - 1)>> \o Split(SubSeq(text, i + 1, Len(text)), sep)

RECURSIVE Join(_, _)
\* parts.join(sep)
Join(parts, sep) ==
  IF Len(parts) = 0 THEN <<>>
  ELSE IF Len(parts) = 1 THEN parts[1]
  ELSE parts[1] \o <<sep>> \o Join(Tail(parts), sep)

RECURSIVE DecDigits(_)
\* the decimal digits of a natural number, without leading zeros
DecDigits(n) == IF n < 10 THEN <<Digits[n + 1]>> ELSE DecDigits(n \div 10) \o <<Digits[(n % 10) + 1]>>

\* num.toString() for an integer Number (NaN gives "NaN")
NumToString(a) ==
  IF isNaN(a) THEN <<"N", "a", "N">>
  ELSE LET v == a[1] * W + a[2]
       IN  IF v < 0 THEN <<"-">> \o DecDigits(-v) ELSE DecDigits(v)

RECURSIVE SkipSpace(_)
SkipSpace(text) ==
  IF Len(text) > 0 /\ IsSpace(text[1]) THEN SkipSpace(Tail(text)) ELSE text

RECURSIVE DigitRun(_, _)
\* the value of the longest prefix of digits of text, continuing from acc
DigitRun(text, acc) ==
  IF Len(text) > 0 /\ IsDigit(text[1])
    THEN DigitRun(Tail(text), Plus(Times(10, acc), Num(DigitVal(text[1]))))
    ELSE acc

\* parseInt(text, 10): skips leading white space, reads an optional sign and
\* the longest run of digits, and is NaN when there is no digit
parseInt(text) ==
  LET s == SkipSpace(text)
      signed == Len(s) > 0 /\ s[1] \in {"+", "-"}
      body == IF signed THEN Tail(s) ELSE s
  IN  IF Len(body) = 0 \/ ~IsDigit(body[1]) THEN NaN
      ELSE IF signed /\ s[1] = "-" THEN Minus(Num(0), DigitRun(body, Num(0)))
      ELSE DigitRun(body, Num(0))

(***************************************************************************)
(* Address codec                                                           *)
(***************************************************************************)
\* isValidPart without the comparison of the part with num.toString()
isValidPartAnyDigits(part) ==
  LET num == parseInt(part)
  IN  ~isNaN(num) /\ Le(Num(0), num) /\ Le(num, Num(255))

isValidPart(part) ==
  LET num == parseInt(part)
  IN  ~isNaN(num) /\ Le(Num(0), num) /\ Le(num, Num(255)) /\ part = NumToString(num)

isValidIp(text) ==
  LET parts == Split(text, ".")
  IN  IF Len(parts) # 4 THEN FALSE
      ELSE \A i \in 1..Len(parts) : isValidPart(parts[i])

RECURSIVE ipToLongReduce(_, _)
ipToLongReduce(parts, acc) ==
  IF Len(parts) = 0 THEN acc
  ELSE ipToLongReduce(Tail(parts), Plus(Shl(acc, 8), parseInt(parts[1])))

\* ipToLong without the closing >>> 0: the signed result of the last <<
ipToLongSigned(text) == ipToLongReduce(Split(text, "."), Num(0))

ipToLong(text) == Ushr(ipToLongReduce(Split(text, "."), Num(0)), 0)

longToIp(long) ==
  Join(<<NumToString(BitAnd(Ushr(long, 24), Num(255))),
         NumToString(BitAnd(Ushr(long, 16), Num(255))),
         NumToString(BitAnd(Ushr(long, 8), Num(255))),
         NumToString(BitAnd(long, Num(255)))>>, ".")

RECURSIVE BinDigits16(_, _)
\* the k low binary digits of a 16-bit word, most significant first
BinDigits16(x, k) ==
  IF k = 0 THEN <<>> ELSE BinDigits16(x \div 2, k - 1) \o <<Digits[(x % 2) + 1]>>

RECURSIVE StripZeros(_)
StripZeros(text) ==
  IF Len(text) > 1 /\ text[1] = "0" THEN StripZeros(Tail(text)) ELSE text

RECURSIVE padStart(_, _, _)
\* text.padStart(n, c)
padStart(text, n, c) == IF Len(text) >= n THEN text ELSE padStart(<<c>> \o text, n, c)

\* (num >>> 0).toString(2).padStart(32, '0')
toBinaryString(num) ==
  LET u == Ushr(num, 0)
  IN  padStart(StripZeros(BinDigits16(u[1], 16) \o BinDigits16(u[2], 16)), 32, "0")

(***************************************************************************)
(* Classifier                                                              *)
(***************************************************************************)
\* PRIVATE_RANGES with the end of 172.16.0.0/12 one address short
PRIVATE_RANGES_ShortEnd ==
  << [start |-> Num(167772160), end |-> Num(184549375), name |-> "10.0.0.0/8", minCidr |-> 8],
     [start |-> Dec(2886, 729728), end |-> Dec(2887, 778302), name |-> "172.16.0.0/12", minCidr |-> 12],
     [start |-> Dec(3232, 235520), end |-> Dec(3232, 301055), name |-> "192.168.0.0/16", minCidr |-> 16] >>

PRIVATE_RANGES ==
  << [start |-> Num(167772160), end |-> Num(184549375), name |-> "10.0.0.0/8", minCidr |-> 8],
     [start |-> Dec(2886, 729728), end |-> Dec(2887, 778303), name |-> "172.16.0.0/12", minCidr |-> 12],
     [start |-> Dec(3232, 235520), end |-> Dec(3232, 301055), name |-> "192.168.0.0/16", minCidr |-> 16] >>

getNetworkClass(firstOctet) ==
  IF Le(Num(0), firstOctet) /\ Le(firstOctet, Num(127)) THEN [char |-> "A", defaultCidr |-> 8]
  ELSE IF Le(Num(128), firstOctet) /\ Le(firstOctet, Num(191)) THEN [char |-> "B", defaultCidr |-> 16]
  ELSE IF Le(Num(192), firstOctet) /\ Le(firstOctet, Num(223)) THEN [char |-> "C", defaultCidr |-> 24]
  ELSE IF Le(Num(224), firstOctet) /\ Le(firstOctet, Num(239)) THEN [char |-> "D", defaultCidr |-> 0]
  ELSE [char |-> "E", defaultCidr |-> 0]

\* for (const range of PRIVATE_RANGES) if (...) return: the index of the first
\* range, in order, among those (hits) that satisfy the test; 0 when none does
FirstRange(hits) ==
  IF hits = {} THEN 0 ELSE CHOOSE i \in hits : \A j \in hits : i <= j

getIpCategory(text) ==
  IF ~isValidIp(text) THEN [type |-> "Unknown", isPrivate |-> FALSE]
  ELSE
    LET long == ipToLong(text)
        Holds(range) == Le(range.start, long) /\ Le(long, range.end)
        r == FirstRange({i \in 1..Len(PRIVATE_RANGES) : Holds(PRIVATE_RANGES[i])})
    IN  IF r # 0
          THEN [type |-> "Private", isPrivate |-> TRUE, rangeName |-> PRIVATE_RANGES[r].name,
                minCidr |-> PRIVATE_RANGES[r].minCidr, description |-> "RFC 1918 Private"]
        ELSE IF Le(Dec(2130, 706432), long) /\ Le(long, Dec(2147, 483647))
          THEN [type |-> "Loopback", isPrivate |-> FALSE, description |-> "Loopback Address"]
        ELSE IF Le(Dec(2851, 995648), long) /\ Le(long, Dec(2852, 61183))
          THEN [type |-> "Link-Local", isPrivate |-> FALSE, description |-> "APIPA / Link-Local"]
        ELSE IF Le(Dec(1681, 915904), long) /\ Le(long, Dec(1686, 110207))
          THEN [type |-> "CGNAT", isPrivate |-> FALSE, description |-> "Carrier-Grade NAT"]
        ELSE IF Le(Dec(3758, 96384), long) /\ Le(long, Dec(4026, 531839))
          THEN [type |-> "Multicast", isPrivate |-> FALSE, description |-> "Multicast"]
        ELSE IF Le(Dec(4026, 531840), long) /\ Le(long, Dec(4294, 967295))
          THEN [type |-> "Reserved", isPrivate |-> FALSE, description |-> "Reserved"]
        ELSE [type |-> "Public", isPrivate |-> FALSE, description |-> "Public Internet Address"]

\* the value checkPrivateOverlap returns when no range overlaps
null == "null"

\* checkPrivateOverlap without the isValidIp test
checkPrivateOverlapUnchecked(text, c) ==
  LET ipLong == ipToLong(text)
      maskLong == Ushr(Shl(Num(-1), 32 - c), 0)
      networkStart == Ushr(BitAnd(ipLong, maskLong), 0)
      networkEnd == Ushr(BitOr(networkStart, BitNot(maskLong)), 0)
      Meets(range) == Le(networkStart, range.end) /\ Le(range.start, networkEnd)
      r == FirstRange({i \in 1..Len(PRIVATE_RANGES) : Meets(PRIVATE_RANGES[i])})
  IN  IF r # 0 THEN PRIVATE_RANGES[r].name ELSE null

checkPrivateOverlap(text, c) ==
  IF ~isValidIp(text) THEN null
  ELSE
    LET ipLong == ipToLong(text)
        maskLong == Ushr(Shl(Num(-1), 32 - c), 0)
        networkStart == Ushr(BitAnd(ipLong, maskLong), 0)
        networkEnd == Ushr(BitOr(networkStart, BitNot(maskLong)), 0)
        Meets(range) == Le(networkStart, range.end) /\ Le(range.start, networkEnd)
        r == FirstRange({i \in 1..Len(PRIVATE_RANGES) : Meets(PRIVATE_RANGES[i])})
    IN  IF r # 0 THEN PRIVATE_RANGES[r].name ELSE null

(***************************************************************************)
(* Subnet calculator                                                       *)
(***************************************************************************)
NA == <<"N", "/", "A">>

\* parentCidr is <<>> when the optional argument is omitted and <<p>> when
\* it is p.  cidr, hostBits, borrowedBits, baseCidr and defaultCidr are small
\* and kept as integers; the other numeric fields are Numbers.
calculateSubnet(text, c, parent) ==
  IF ~isValidIp(text)
    THEN [isValid |-> FALSE, ip |-> text, cidr |-> c, subnetMask |-> <<>>,
          networkAddress |-> <<>>, broadcastAddress |-> <<>>, firstHost |-> <<>>,
          lastHost |-> <<>>, hostsPerSubnet |-> Num(0), hostBits |-> 0, borrowedBits |-> 0,
          subnetsCreated |-> Num(0), networkClass |-> "-", defaultCidr |-> 0, baseCidr |-> 0,
          binaryIp |-> <<>>, binaryMask |-> <<>>, binaryNet |-> <<>>]
  ELSE
    LET ipLong == ipToLong(text)
        maskLong == Shl(Num(-1), 32 - c)
        networkLong == Ushr(BitAnd(ipLong, maskLong), 0)
        broadcastLong == Ushr(BitOr(networkLong, BitNot(maskLong)), 0)
        hostBits == 32 - c
        hostsPerSubnet == IF hostBits > 0 THEN Minus(MathPow2(hostBits), Num(2)) ELSE Num(0)
        firstOctet == parseInt(Split(text, ".")[1])
        netClass == getNetworkClass(firstOctet)
        baseCidr == IF parent # <<>> THEN parent[1] ELSE netClass.defaultCidr
        borrowedBits == IF baseCidr > 0 /\ c >= baseCidr THEN c - baseCidr ELSE 0
        subnetsCreated == MathPow2(borrowedBits)
        firstHostLong == Ushr(Plus(networkLong, Num(1)), 0)
        lastHostLong == Ushr(Minus(broadcastLong, Num(1)), 0)
    IN  [isValid |-> TRUE, ip |-> text, cidr |-> c,
         subnetMask |-> longToIp(maskLong),
         networkAddress |-> longToIp(networkLong),
         broadcastAddress |-> longToIp(broadcastLong),
         firstHost |-> IF c < 31 THEN longToIp(firstHostLong) ELSE NA,
         lastHost |-> IF c < 31 THEN longToIp(lastHostLong) ELSE NA,
         hostsPerSubnet |-> IF Lt(Num(0), hostsPerSubnet) THEN hostsPerSubnet ELSE Num(0),
         hostBits |-> hostBits, borrowedBits |-> borrowedBits,
         subnetsCreated |-> subnetsCreated,
         networkClass |-> netClass.char, defaultCidr |-> netClass.defaultCidr,
         baseCidr |-> baseCidr,
         binaryIp |-> toBinaryString(ipLong),
         binaryMask |-> toBinaryString(maskLong),
         binaryNet |-> toBinaryString(networkLong)]

(***************************************************************************)
(* Subnet enumerator                                                       *)
(***************************************************************************)
\* the limit generateSubnetTable takes when the argument is omitted
DefaultLimit == 256

\* SubnetRow with the broadcast one address too far: currentNet + increment
SubnetRowOpenEnd(ipLong, baseNetworkLong, increment, c, i) ==
  LET currentNet == Ushr(Plus(baseNetworkLong, Times(i, increment)), 0)
      currentBroadcast == Ushr(Plus(currentNet, increment), 0)
      startHost == Ushr(Plus(currentNet, Num(1)), 0)
      endHost == Ushr(Minus(currentBroadcast, Num(1)), 0)
      isCurrent == Le(currentNet, ipLong) /\ Le(ipLong, currentBroadcast)
      rangeStr == IF c < 31
                    THEN longToIp(startHost) \o <<" ", "-", " ">> \o longToIp(endHost)
                    ELSE NA
  IN  [index |-> i + 1, networkAddress |-> longToIp(currentNet), range |-> rangeStr,
       broadcastAddress |-> longToIp(currentBroadcast), isCurrent |-> isCurrent]

\* the row the loop body pushes for loop variable i
SubnetRow(ipLong, baseNetworkLong, increment, c, i) ==
  LET currentNet == Ushr(Plus(baseNetworkLong, Times(i, increment)), 0)
      currentBroadcast == Ushr(Minus(Plus(currentNet, increment), Num(1)), 0)
      startHost == Ushr(Plus(currentNet, Num(1)), 0)
      endHost == Ushr(Minus(currentBroadcast, Num(1)), 0)
      isCurrent == Le(currentNet, ipLong) /\ Le(ipLong, currentBroadcast)
      rangeStr == IF c < 31
                    THEN longToIp(startHost) \o <<" ", "-", " ">> \o longToIp(endHost)
                    ELSE NA
  IN  [index |-> i + 1, networkAddress |-> longToIp(currentNet), range |-> rangeStr,
       broadcastAddress |-> longToIp(currentBroadcast), isCurrent |-> isCurrent]

\* generateSubnetTable with truncated computed as totalCount >= limit
generateSubnetTableAtLimit(text, c, base, lim) ==
  IF ~isValidIp(text) \/ c < base
    THEN [rows |-> <<>>, totalCount |-> Num(0), truncated |-> FALSE]
  ELSE
    LET limitArg == IF lim = <<>> THEN DefaultLimit ELSE lim[1]
        ipLong == ipToLong(text)
        baseMaskLong == Ushr(Shl(Num(-1), 32 - base), 0)
        baseNetworkLong == Ushr(BitAnd(ipLong, baseMaskLong), 0)
        borrowedBits == c - base
        totalCount == MathPow2(borrowedBits)
        increment == MathPow2(32 - c)
        loopLimit == Min(totalCount, Num(limitArg))
        n == loopLimit[1] * W + loopLimit[2]
    IN  [rows |-> [k \in 1..n |-> SubnetRow(ipLong, baseNetworkLong, increment, c, k - 1)],
         totalCount |-> totalCount,
         truncated |-> Le(Num(limitArg), totalCount)]

\* lim is <<>> when the optional argument is omitted and <<n>> when it is n
generateSubnetTable(text, c, base, lim) ==
  IF ~isValidIp(text) \/ c < base
    THEN [rows |-> <<>>, totalCount |-> Num(0), truncated |-> FALSE]
  ELSE
    LET limitArg == IF lim = <<>> THEN DefaultLimit ELSE lim[1]
        ipLong == ipToLong(text)
        baseMaskLong == Ushr(Shl(Num(-1), 32 - base), 0)
        baseNetworkLong == Ushr(BitAnd(ipLong, baseMaskLong), 0)
        borrowedBits == c - base
        totalCount == MathPow2(borrowedBits)
        increment == MathPow2(32 - c)
        loopLimit == Min(totalCount, Num(limitArg))
        n == loopLimit[1] * W + loopLimit[2]
    IN  [rows |-> [k \in 1..n |-> SubnetRow(ipLong, baseNetworkLong, increment, c, k - 1)],
         totalCount |-> totalCount,
         truncated |-> Lt(Num(limitArg), totalCount)]

(***************************************************************************)
(* Inputs                                                                  *)
(***************************************************************************)
\* the dotted-decimal text of four octets
Dotted(o) == Join(<<DecDigits(o[1]), DecDigits(o[2]), DecDigits(o[3]), DecDigits(o[4])>>, ".")

\* characters of the enumerated parts: digits, a letter, white space, signs
Alphabet == {"0", "1", "2", "5", "6", "9", "a", " ", "-", "+"}

\* every text over Alphabet of length at most MaxPartLen
PartTexts == UNION {[1..n -> Alphabet] : n \in 0..MaxPartLen}

\* parts combined freely into texts of 1..MaxParts parts
PartSamples == {<<"0">>, <<"2", "5", "5">>, <<"2", "5", "6">>, <<"0", "4">>, <<>>}

\* the texts the spec names as rejected, and a.b.c.d
RejectedExamples ==
  { <<"2", "5", "6", ".", "1", ".", "1", ".", "1">>,
    <<"1", ".", "2", ".", "3">>,
    <<"1", ".", "2", ".", "3", ".", "0", "4">>,
    <<"1", ".", "2", ".", "3", ".", "4", ".", "5">>,
    <<"a", ".", "b", ".", "c", ".", "d">> }

\* octets around the decimal-length and sign-bit boundaries
CodecOctets == {0, 1, 9, 10, 99, 100, 127, 128, 255}

CodecTexts ==
  {Join(<<p, <<"1">>, <<"2", "0">>, <<"2", "5", "5">>>>, ".") : p \in PartTexts}
    \cup {Join(<<<<"1", "0">>, <<"0">>, <<"9">>, p>>, ".") : p \in PartTexts}
    \cup {Join(ps, ".") : ps \in UNION {[1..n -> PartSamples] : n \in 1..MaxParts}}
    \cup {Dotted(o) : o \in CodecOctets \X CodecOctets \X CodecOctets \X CodecOctets}
    \cup RejectedExamples

\* first and second octets around the boundaries of every classified range
ClassOctets1 == {0, 9, 10, 11, 100, 101, 126, 127, 128, 169, 170, 172, 173, 191, 192, 193,
                 223, 224, 239, 240, 255}

ClassOctets2 == {0, 15, 16, 31, 32, 63, 64, 127, 128, 168, 169, 254, 255}

ClassTails == {<<0, 0>>, <<255, 255>>}

\* the addresses of the spec's classification and overlap examples
ExampleAddresses ==
  { <<10, 5, 0, 1>>, <<8, 8, 8, 8>>, <<127, 0, 0, 1>>, <<169, 254, 1, 1>>, <<100, 64, 0, 1>>,
    <<224, 0, 0, 1>>, <<11, 0, 0, 1>>, <<192, 168, 1, 10>> }

ClassifierTexts ==
  {Dotted(<<a, b, t[1], t[2]>>) : <<a, b, t>> \in ClassOctets1 \X ClassOctets2 \X ClassTails}
    \cup {Dotted(o) : o \in ExampleAddresses}
    \cup RejectedExamples

Prefixes == 0..32

\* addresses of every legacy class, at the ends of the address space, and
\* the addresses of the spec's examples
SubnetAddresses ==
  { <<0, 0, 0, 0>>, <<8, 8, 8, 8>>, <<10, 5, 0, 1>>, <<11, 0, 0, 1>>, <<127, 0, 0, 1>>,
    <<128, 0, 0, 0>>, <<172, 16, 254, 3>>, <<192, 168, 1, 10>>, <<224, 0, 0, 1>>,
    <<255, 255, 255, 255>> }

\* one text isValidIp rejects
BadText == <<"1", ".", "2", ".", "3", ".", "0", "4">>

SubnetTexts == {Dotted(o) : o \in SubnetAddresses} \cup {BadText}

\* the addresses and prefixes enumerated under the default limit, where a
\* table has up to DefaultLimit rows
TableAddresses ==
  { <<0, 0, 0, 0>>, <<10, 5, 0, 1>>, <<128, 0, 0, 0>>, <<192, 168, 1, 10>>,
    <<255, 255, 255, 255>> }

TableTexts == {Dotted(o) : o \in TableAddresses} \cup {BadText}

TablePrefixes == {0, 1, 8, 16, 24, 26, 30, 31, 32}

ExplicitLimits == {<<n>> : n \in 0..MaxLimit}

(***************************************************************************)
(* The engine holds no state: each specification draws the arguments of    *)
(* its calls in Init, and an action is one call, whose return value is     *)
(* ret.                                                                    *)
(***************************************************************************)
Idle == /\ op = "none"
        /\ ret = <<>>

InitCodec ==
  /\ ip \in CodecTexts
  /\ cidr = 0
  /\ parentCidr = <<>>
  /\ limit = <<>>
  /\ Idle

InitClassifier ==
  /\ ip \in ClassifierTexts
  /\ cidr \in Prefixes
  /\ parentCidr = <<>>
  /\ limit = <<>>
  /\ Idle

InitCalculator ==
  /\ ip \in SubnetTexts
  /\ cidr \in Prefixes
  /\ parentCidr \in {<<>>} \cup {<<p>> : p \in Prefixes}
  /\ limit = <<>>
  /\ Idle

InitEnumerator ==
  /\ ip \in TableTexts
  /\ \/ /\ limit \in ExplicitLimits
        /\ cidr \in Prefixes
        /\ parentCidr \in {<<p>> : p \in Prefixes}
     \/ /\ limit = <<>>
        /\ cidr \in TablePrefixes
        /\ parentCidr \in {<<p>> : p \in TablePrefixes}
  /\ Idle

IsValidIp ==
  /\ op' = "isValidIp"
  /\ ret' = isValidIp(ip)
  /\ UNCHANGED <<ip, cidr, parentCidr, limit>>

IpToLong ==
  /\ op' = "ipToLong"
  /\ ret' = ipToLong(ip)
  /\ UNCHANGED <<ip, cidr, parentCidr, limit>>

\* longToIp of the Number ipToLong returned
LongToIp ==
  /\ op = "ipToLong"
  /\ op' = "longToIp"
  /\ ret' = longToIp(ret)
  /\ UNCHANGED <<ip, cidr, parentCidr, limit>>

GetIpCategory ==
  /\ op' = "getIpCategory"
  /\ ret' = getIpCategory(ip)
  /\ UNCHANGED <<ip, cidr, parentCidr, limit>>

CheckPrivateOverlap ==
  /\ op' = "checkPrivateOverlap"
  /\ ret' = checkPrivateOverlap(ip, cidr)
  /\ UNCHANGED <<ip, cidr, parentCidr, limit>>

CalculateSubnet ==
  /\ op' = "calculateSubnet"
  /\ ret' = calculateSubnet(ip, cidr, parentCidr)
  /\ UNCHANGED <<ip, cidr, parentCidr, limit>>

GenerateSubnetTable ==
  /\ op' = "generateSubnetTable"
  /\ ret' = generateSubnetTable(ip, cidr, parentCidr[1], limit)
  /\ UNCHANGED <<ip, cidr, parentCidr, limit>>

NextCodec == IsValidIp \/ IpToLong \/ LongToIp

NextClassifier == GetIpCategory \/ CheckPrivateOverlap

NextCalculator == CalculateSubnet

NextEnumerator == GenerateSubnetTable

SpecCodec == InitCodec /\ [][NextCodec]_vars

SpecClassifier == InitClassifier /\ [][NextClassifier]_vars

SpecCalculator == InitCalculator /\ [][NextCalculator]_vars

SpecEnumerator == InitEnumerator /\ [][NextEnumerator]_vars

\* texts isValidIp rejects: a leading zero, an octet above 255, three and
\* five parts, letters, an empty part, a sign, white space, no text at all
BadTexts ==
  RejectedExamples \cup
  { <<"1", "0", ".", "0", ".", "0", ".", "0", "4">>,
    <<"1", "9", "2", ".", "1", "6", "8", ".", ".", "1">>,
    <<"-", "1", ".", "2", ".", "3", ".", "4">>,
    <<" ", "1", ".", "2", ".", "3", ".", "4">>,
    <<>> }

EngineTexts == {Dotted(o) : o \in TableAddresses} \cup BadTexts

\* the arguments of the four functions that take an address text, with the
\* parent prefix given, as the component gives it (parentCidrInput)
InitEngine ==
  /\ ip \in EngineTexts
  /\ cidr \in TablePrefixes
  /\ parentCidr \in {<<p>> : p \in TablePrefixes}
  /\ limit \in {<<0>>, <<MaxLimit>>}
  /\ Idle

\* SubnetCalculatorComponent.subnetTable after SubnetCalculatorComponent.result:
\* generateSubnetTable is called with the address, the prefix and the
\* baseCidr of the SubnetDetails calculateSubnet returned, and no limit; ret
\* keeps both results.  The component's isValid gate, which only withholds
\* the call, is left out.
SubnetTableOfResult ==
  /\ op = "calculateSubnet"
  /\ op' = "subnetTable"
  /\ ret' = [result |-> ret, table |-> generateSubnetTable(ip, cidr, ret.baseCidr, <<>>)]
  /\ UNCHANGED <<ip, cidr, parentCidr, limit>>

NextEngine ==
  \/ GetIpCategory
  \/ CheckPrivateOverlap
  \/ CalculateSubnet
  \/ GenerateSubnetTable
  \/ SubnetTableOfResult

SpecEngine == InitEngine /\ [][NextEngine]_vars

(***************************************************************************)
(* What the specification says of addresses, stated without the engine's   *)
(* bit operators: by decimal place value and by division.                  *)
(***************************************************************************)
RECURSIVE PlaceValue(_)
\* the number a text of digits writes
PlaceValue(part) ==
  IF Len(part) = 0 THEN 0
  ELSE 10 * PlaceValue(SubSeq(part, 1, Len(part) - 1)) + DigitVal(part[Len(part)])

\* the canonical decimal text of an integer in 0..255
CanonicalOctet(part) ==
  /\ Len(part) \in 1..3
  /\ \A i \in 1..Len(part) : IsDigit(part[i])
  /\ Len(part) > 1 => part[1] # "0"
  /\ PlaceValue(part) <= 255

DotIndexes(text) == {i \in 1..Len(text) : text[i] = "."}

\* the four parts of a text that holds exactly three dots
FourParts(text) ==
  LET D == DotIndexes(text)
      d1 == CHOOSE i \in D : \A j \in D : i <= j
      d3 == CHOOSE i \in D : \A j \in D : j <= i
      d2 == CHOOSE i \in D : i # d1 /\ i # d3
  IN  <<SubSeq(text, 1, d1 - 1), SubSeq(text, d1 + 1, d2 - 1),
        SubSeq(text, d2 + 1, d3 - 1), SubSeq(text, d3 + 1, Len(text))>>

CanonicalAddress(text) ==
  /\ Cardinality(DotIndexes(text)) = 3
  /\ \A i \in 1..4 : CanonicalOctet(FourParts(text)[i])

\* the octets of a canonical address text
OctetsOf(text) == [i \in 1..4 |-> PlaceValue(FourParts(text)[i])]

\* o1 * 2^24 + o2 * 2^16 + o3 * 2^8 + o4
AddrOf(text) ==
  LET o == OctetsOf(text)
  IN  <<o[1] * 256 + o[2], o[3] * 256 + o[4]>>

\* 2^n, 0 <= n <= 32
Pow2(n) == IF n < 16 THEN <<0, 2^n>> ELSE <<2^(n - 16), 0>>

\* the 32-bit value of p leading one-bits and 32 - p zero-bits: 2^32 - 2^(32 - p)
TrueMask(p) == Minus(Pow2(32), Pow2(32 - p))

\* a with its 32 - p low bits cleared, for 0 <= a < 2^32: a - (a mod 2^(32 - p))
TrueNetwork(a, p) ==
  IF p = 0 THEN <<0, 0>>
  ELSE IF p <= 16 THEN <<a[1] - (a[1] % 2^(16 - p)), 0>>
  ELSE <<a[1], a[2] - (a[2] % 2^(32 - p))>>

\* the last address of the block of a under prefix p
TrueBroadcast(a, p) == Minus(Plus(TrueNetwork(a, p), Pow2(32 - p)), <<0, 1>>)

RECURSIVE Repeat(_, _)
Repeat(c, n) == IF n = 0 THEN <<>> ELSE <<c>> \o Repeat(c, n - 1)

InU32(a) == a # NaN /\ Le(<<0, 0>>, a) /\ Le(a, <<W - 1, W - 1>>)

(***************************************************************************)
(* Address codec: C7, C8                                                   *)
(***************************************************************************)
\* C7: for every text S isValidIp accepts, ipToLong(S) is the unsigned value
\* o1 * 2^24 + o2 * 2^16 + o3 * 2^8 + o4 of its octets, within [0, 2^32 - 1]
\* (not negative when o1 >= 128), and longToIp of that value is S again.
C7_RoundTrip ==
  isValidIp(ip) =>
    /\ op = "ipToLong" => (InU32(ret) /\ ret = AddrOf(ip))
    /\ op = "longToIp" => ret = ip

\* a valid address whose first octet has the sign bit set went through
\* ipToLong and longToIp and came back unchanged
C7_Witness ==
  /\ op = "longToIp"
  /\ ip = Dotted(<<255, 128, 0, 9>>)
  /\ isValidIp(ip)
  /\ ret = ip

\* C8: isValidIp(text) is true exactly when text is four dot-separated parts
\* and each is the canonical decimal text of an integer in [0, 255]; the
\* spec's five examples are rejected.
C8_ValidIffCanonical ==
  op = "isValidIp" =>
    /\ ret = CanonicalAddress(ip)
    /\ ip \in RejectedExamples => ret = FALSE

\* isValidIp rejected 1.2.3.04, whose last part has a leading zero
C8_Witness ==
  /\ op = "isValidIp"
  /\ ip = <<"1", ".", "2", ".", "3", ".", "0", "4">>
  /\ ret = FALSE

(***************************************************************************)
(* Classifier: C9, C2                                                      *)
(***************************************************************************)
\* the classified ranges in the order of the specification, by octets:
\* 10.0.0.0/8, 172.16.0.0/12, 192.168.0.0/16, 127.0.0.0/8, 169.254.0.0/16,
\* 100.64.0.0/10, 224.0.0.0/4, 240.0.0.0/4
InRange(i, o) ==
  CASE i = 1 -> o[1] = 10
    [] i = 2 -> o[1] = 172 /\ o[2] \in 16..31
    [] i = 3 -> o[1] = 192 /\ o[2] = 168
    [] i = 4 -> o[1] = 127
    [] i = 5 -> o[1] = 169 /\ o[2] = 254
    [] i = 6 -> o[1] = 100 /\ o[2] \in 64..127
    [] i = 7 -> o[1] \in 224..239
    [] i = 8 -> o[1] \in 240..255

RangeType ==
  <<"Private", "Private", "Private", "Loopback", "Link-Local", "CGNAT", "Multicast", "Reserved">>

RangeName == <<"10.0.0.0/8", "172.16.0.0/12", "192.168.0.0/16">>

RangeMinCidr == <<8, 12, 16>>

Matching(o) == {i \in 1..8 : InRange(i, o)}

\* C9: an invalid text is Unknown and nothing else is; a valid address lies
\* in at most one classified range (so the order of the tests does not
\* matter), gets that range's type (with the range name and minCidr of a
\* private range), and is Public when it lies in none; isPrivate is true
\* exactly for type Private.
C9_Category ==
  op = "getIpCategory" =>
    /\ ret.isPrivate = (ret.type = "Private")
    /\ (ret.type = "Unknown") = ~CanonicalAddress(ip)
    /\ CanonicalAddress(ip) =>
         LET M == Matching(OctetsOf(ip))
         IN  /\ Cardinality(M) <= 1
             /\ M = {} => ret.type = "Public"
             /\ \A i \in M :
                  /\ ret.type = RangeType[i]
                  /\ i <= 3 => (ret.rangeName = RangeName[i] /\ ret.minCidr = RangeMinCidr[i])

\* the last address of 172.16.0.0/12 was classified Private with minCidr 12
C9_Witness ==
  /\ op = "getIpCategory"
  /\ ip = Dotted(<<172, 31, 255, 255>>)
  /\ ret.type = "Private"
  /\ ret.minCidr = 12

(***************************************************************************)
(* Subnet enumerator: C5, C3, C4                                           *)
(***************************************************************************)
\* the call's arguments meet generateSubnetTable's precondition
TableCase ==
  /\ op = "generateSubnetTable"
  /\ CanonicalAddress(ip)
  /\ parentCidr[1] <= cidr

\* the limit in force: the argument, or 256 when it is omitted
LimitInForce == IF limit = <<>> THEN 256 ELSE limit[1]

\* C5: for a valid address and baseCidr <= cidr, totalCount is
\* 2^(cidr - baseCidr), the number of rows is min(totalCount, limit) with
\* limit 256 when omitted, and truncated is true exactly when
\* totalCount > limit.
C5_CountAndTruncation ==
  TableCase =>
    LET total == Pow2(cidr - parentCidr[1])
        lim == <<0, LimitInForce>>
    IN  /\ ret.totalCount = total
        /\ <<0, Len(ret.rows)>> = (IF Le(total, lim) THEN total ELSE lim)
        /\ ret.truncated = ~Le(total, lim)

\* base 8, target 30, limit omitted: 256 rows, truncated, totalCount 4194304
C5_Witness ==
  /\ TableCase
  /\ parentCidr = <<8>> /\ cidr = 30 /\ limit = <<>>
  /\ Len(ret.rows) = 256
  /\ ret.truncated
  /\ ret.totalCount = <<64, 0>>

\* row k of the table covers the k-th block of 2^(32 - cidr) addresses of
\* the base network a AND mask(baseCidr), with no wrap-around
RowCoversBlock(k) ==
  LET row == ret.rows[k]
      network == Plus(TrueNetwork(AddrOf(ip), parentCidr[1]), Times(k - 1, Pow2(32 - cidr)))
  IN  /\ row.index = k
      /\ CanonicalAddress(row.networkAddress)
      /\ CanonicalAddress(row.broadcastAddress)
      /\ AddrOf(row.networkAddress) = network
      /\ AddrOf(row.broadcastAddress) = Minus(Plus(network, Pow2(32 - cidr)), <<0, 1>>)

\* C3: for a valid address and 0 <= baseCidr <= cidr <= 32 the rows are
\* indexed 1..n in ascending order, row i (from 0) has networkAddress
\* (a AND mask(baseCidr)) + i * 2^(32 - cidr) and broadcastAddress
\* networkAddress + 2^(32 - cidr) - 1, without 32-bit wrap-around; cidr = 0
\* gives the block 0.0.0.0 - 255.255.255.255.
C3_RowsCoverBlocks ==
  TableCase => \A k \in 1..Len(ret.rows) : RowCoversBlock(k)

\* C3 for baseCidr >= 1, where the code's base mask is the intended one
C3_RowsCoverBlocksPositiveBase ==
  (TableCase /\ parentCidr[1] >= 1) => \A k \in 1..Len(ret.rows) : RowCoversBlock(k)

\* the rows flagged isCurrent
Flagged == {k \in 1..Len(ret.rows) : ret.rows[k].isCurrent}

\* row k's [networkAddress, broadcastAddress] interval contains the address
RowContains(k) ==
  /\ Le(AddrOf(ret.rows[k].networkAddress), AddrOf(ip))
  /\ Le(AddrOf(ip), AddrOf(ret.rows[k].broadcastAddress))

\* C4: for a valid address and 0 <= baseCidr <= cidr <= 32, isCurrent is
\* true exactly on the row whose interval contains the address: at most one
\* row is flagged, and exactly one when truncated is false.
C4_OneCurrentRow ==
  TableCase =>
    /\ \A k \in 1..Len(ret.rows) : ret.rows[k].isCurrent = RowContains(k)
    /\ Cardinality(Flagged) <= 1
    /\ ~ret.truncated => Cardinality(Flagged) = 1

\* C4 for baseCidr >= 1
C4_OneCurrentRowPositiveBase ==
  (TableCase /\ parentCidr[1] >= 1) =>
    /\ \A k \in 1..Len(ret.rows) : ret.rows[k].isCurrent = RowContains(k)
    /\ Cardinality(Flagged) <= 1
    /\ ~ret.truncated => Cardinality(Flagged) = 1

\* 192.168.1.10, cidr 26, base 24: four rows, the first, 192.168.1.0 -
\* 192.168.1.63, flagged
C4_Example ==
  /\ TableCase
  /\ ip = Dotted(<<192, 168, 1, 10>>) /\ cidr = 26 /\ parentCidr = <<24>> /\ limit = <<>>
  /\ Len(ret.rows) = 4 /\ ~ret.truncated /\ ret.totalCount = <<0, 4>>
  /\ Flagged = {1}
  /\ ret.rows[1].networkAddress = Dotted(<<192, 168, 1, 0>>)
  /\ ret.rows[1].broadcastAddress = Dotted(<<192, 168, 1, 63>>)

(***************************************************************************)
(* Subnet calculator: C1, C6, C10; private overlap: C2                     *)
(***************************************************************************)
\* calculateSubnet was called on a valid address
SubnetCase ==
  /\ op = "calculateSubnet"
  /\ CanonicalAddress(ip)

\* the mask calculateSubnet rendered is the one of p leading one-bits
MaskRendered(p) ==
  /\ ret.binaryMask = Repeat("1", p) \o Repeat("0", 32 - p)
  /\ CanonicalAddress(ret.subnetMask)
  /\ AddrOf(ret.subnetMask) = TrueMask(p)

\* C1: for every valid address and cidr in [0, 32] the mask of
\* calculateSubnet, as rendered in subnetMask and binaryMask, has exactly
\* cidr leading one-bits and then 32 - cidr zero-bits (0.0.0.0 for cidr 0,
\* 255.255.255.255 for cidr 32).
C1_MaskLeadingOnes == SubnetCase => MaskRendered(cidr)

\* C1 for cidr in [1, 32]
C1_MaskLeadingOnesPositivePrefix == (SubnetCase /\ cidr >= 1) => MaskRendered(cidr)

\* network and broadcast of calculateSubnet are those of prefix p
NetworkAndBroadcast(p) ==
  LET a == AddrOf(ip)
      network == AddrOf(ret.networkAddress)
      broadcast == AddrOf(ret.broadcastAddress)
  IN  /\ CanonicalAddress(ret.networkAddress)
      /\ CanonicalAddress(ret.broadcastAddress)
      /\ network = TrueNetwork(a, p)
      /\ broadcast = TrueBroadcast(a, p)
      /\ Le(network, a) /\ Le(a, broadcast)
      /\ TrueNetwork(network, p) = network
      /\ p = 32 => (network = a /\ broadcast = a)

\* C6: for every valid address a and prefix p in [0, 32], network =
\* a AND mask(p), broadcast = network OR NOT mask(p), network <= a <=
\* broadcast, network AND NOT mask(p) = 0, and network = broadcast = a for
\* p = 32.
C6_NetworkAndBroadcast == SubnetCase => NetworkAndBroadcast(cidr)

\* C6 for p in [1, 32]
C6_NetworkAndBroadcastPositivePrefix == (SubnetCase /\ cidr >= 1) => NetworkAndBroadcast(cidr)

\* hostBits and hostsPerSubnet of prefix p, and the 'N/A' marker
HostCount(p) ==
  /\ ret.hostBits = 32 - p
  /\ ret.hostsPerSubnet = (IF 32 - p <= 1 THEN <<0, 0>> ELSE Minus(Pow2(32 - p), <<0, 2>>))
  /\ (ret.firstHost = NA) = (p >= 31)
  /\ (ret.lastHost = NA) = (p >= 31)
  /\ NA # <<>>

\* firstHost and lastHost are the texts of network + 1 and broadcast - 1,
\* network and broadcast being the addresses calculateSubnet returned
HostRange ==
  /\ CanonicalAddress(ret.firstHost)
  /\ CanonicalAddress(ret.lastHost)
  /\ AddrOf(ret.firstHost) = Plus(AddrOf(ret.networkAddress), <<0, 1>>)
  /\ AddrOf(ret.lastHost) = Minus(AddrOf(ret.broadcastAddress), <<0, 1>>)

\* C10: for every valid address and cidr in [0, 32], hostBits = 32 - cidr,
\* hostsPerSubnet = max(0, 2^hostBits - 2), firstHost and lastHost are the
\* texts of network + 1 and broadcast - 1 when cidr < 31 and 'N/A' exactly
\* when cidr >= 31, and 'N/A' is not the empty text of an invalid address.
C10_HostsAndRange ==
  SubnetCase =>
    /\ HostCount(cidr)
    /\ cidr < 31 => HostRange

\* C10 for cidr in [1, 32]
C10_HostsAndRangePositivePrefix ==
  (SubnetCase /\ cidr >= 1) =>
    /\ HostCount(cidr)
    /\ cidr < 31 => HostRange

\* C10 without the host range: the counts and the marker, for cidr in [0, 32]
C10_HostCountEveryPrefix == SubnetCase => HostCount(cidr)

\* the RFC 1918 spans in the specification's order, as first and last address
PrivateSpans ==
  << [name |-> "10.0.0.0/8", first |-> <<10 * 256, 0>>, last |-> <<10 * 256 + 255, 65535>>],
     [name |-> "172.16.0.0/12", first |-> <<172 * 256 + 16, 0>>, last |-> <<172 * 256 + 31, 65535>>],
     [name |-> "192.168.0.0/16", first |-> <<192 * 256 + 168, 0>>, last |-> <<192 * 256 + 168, 65535>>] >>

\* the private spans that intersect the span of a's network under prefix p
Intersecting(a, p) ==
  {i \in 1..3 : /\ Le(TrueNetwork(a, p), PrivateSpans[i].last)
                /\ Le(PrivateSpans[i].first, TrueBroadcast(a, p))}

\* what checkPrivateOverlap is to return for address a and prefix p
FirstOverlap(a, p) ==
  LET S == Intersecting(a, p)
  IN  IF S = {} THEN "null" ELSE PrivateSpans[CHOOSE i \in S : \A j \in S : i <= j].name

\* C2: for every valid address a and cidr in [0, 32], checkPrivateOverlap
\* returns the name of the first of 10.0.0.0/8, 172.16.0.0/12,
\* 192.168.0.0/16 whose span intersects [a AND mask, (a AND mask) OR NOT
\* mask], and null exactly when none does.
C2_FirstIntersectingRange ==
  (op = "checkPrivateOverlap" /\ CanonicalAddress(ip)) => ret = FirstOverlap(AddrOf(ip), cidr)

\* C2 for cidr in [1, 32]
C2_FirstIntersectingRangePositivePrefix ==
  (op = "checkPrivateOverlap" /\ CanonicalAddress(ip) /\ cidr >= 1) =>
    ret = FirstOverlap(AddrOf(ip), cidr)

\* 11.0.0.1 with prefix 7 overlaps 10.0.0.0/8
C2_Example ==
  /\ op = "checkPrivateOverlap"
  /\ ip = Dotted(<<11, 0, 0, 1>>) /\ cidr = 7
  /\ ret = "10.0.0.0/8"

(***************************************************************************)
(* Bad input is a value: C11                                               *)
(***************************************************************************)
EmptyTable == [rows |-> <<>>, totalCount |-> <<0, 0>>, truncated |-> FALSE]

\* what the functions return for a text that is no address, apart from the
\* class letter of calculateSubnet's result
InvalidTextResults ==
  ~CanonicalAddress(ip) =>
    /\ op = "calculateSubnet" =>
         /\ ret.isValid = FALSE
         /\ ret.ip = ip /\ ret.cidr = cidr
         /\ ret.hostsPerSubnet = <<0, 0>> /\ ret.subnetsCreated = <<0, 0>>
         /\ ret.hostBits = 0 /\ ret.borrowedBits = 0
         /\ ret.defaultCidr = 0 /\ ret.baseCidr = 0
         /\ ret.subnetMask = <<>> /\ ret.networkAddress = <<>> /\ ret.broadcastAddress = <<>>
         /\ ret.firstHost = <<>> /\ ret.lastHost = <<>>
         /\ ret.binaryIp = <<>> /\ ret.binaryMask = <<>> /\ ret.binaryNet = <<>>
    /\ op = "getIpCategory" => ret.type = "Unknown"
    /\ op = "checkPrivateOverlap" => ret = "null"
    /\ op = "generateSubnetTable" => ret = EmptyTable

\* what the functions return for a valid address and a prefix below the
\* parent prefix
PrefixBelowParentResults ==
  (CanonicalAddress(ip) /\ cidr < parentCidr[1]) =>
    /\ op = "generateSubnetTable" => ret = EmptyTable
    /\ op = "calculateSubnet" =>
         (ret.isValid /\ ret.borrowedBits = 0 /\ ret.subnetsCreated = <<0, 1>>)

\* C11 as stated: for a text isValidIp rejects, calculateSubnet returns
\* isValid = false with every derived numeric field 0 and every derived
\* string field empty (networkClass, a one-character string kept as a TLA+
\* string, included), getIpCategory returns Unknown, checkPrivateOverlap
\* null and generateSubnetTable the empty table; the table is also empty
\* for a valid address with cidr < baseCidr, where calculateSubnet is still
\* valid with borrowedBits 0 and subnetsCreated 1.
C11_BadInputIsAValue ==
  /\ InvalidTextResults
  /\ PrefixBelowParentResults
  /\ (op = "calculateSubnet" /\ ~CanonicalAddress(ip)) => ret.networkClass = ""

\* C11 amended: as stated, except that networkClass of the invalid result
\* is the placeholder '-' and not the empty string.
C11_BadInputIsAValueButClass ==
  /\ InvalidTextResults
  /\ PrefixBelowParentResults
  /\ (op = "calculateSubnet" /\ ~CanonicalAddress(ip)) => ret.networkClass = "-"

\* checkPrivateOverlap returned null for 10.0.0.04 under prefix 8, the
\* text of no address although its digits read as one inside 10.0.0.0/8
C11_Witness ==
  /\ op = "checkPrivateOverlap"
  /\ ip = <<"1", "0", ".", "0", ".", "0", ".", "0", "4">>
  /\ cidr = 8
  /\ ret = "null"

\* calculateSubnet returned the invalid result, with class '-', for a.b.c.d
C11_InvalidSubnetReached ==
  /\ op = "calculateSubnet"
  /\ ip = <<"a", ".", "b", ".", "c", ".", "d">>
  /\ ret.isValid = FALSE
  /\ ret.networkClass = "-"

(***************************************************************************)
(* Calculator and enumerator on the same arguments: C12                    *)
(***************************************************************************)
\* calculateSubnet and then generateSubnetTable were called on a valid
\* address with baseCidr <= cidr
BothCase ==
  /\ op = "subnetTable"
  /\ CanonicalAddress(ip)
  /\ parentCidr[1] <= cidr

\* the two results agree: subnetsCreated is totalCount, and a row flagged
\* isCurrent has the network and broadcast addresses of the SubnetDetails
ResultsAgree ==
  /\ ret.result.subnetsCreated = ret.table.totalCount
  /\ \A k \in 1..Len(ret.table.rows) :
       ret.table.rows[k].isCurrent =>
         /\ ret.table.rows[k].networkAddress = ret.result.networkAddress
         /\ ret.table.rows[k].broadcastAddress = ret.result.broadcastAddress

\* C12 as stated: for every valid address and 0 <= baseCidr <= cidr <= 32,
\* calculateSubnet(a, cidr, baseCidr).subnetsCreated equals
\* generateSubnetTable(a, cidr, baseCidr).totalCount and any row flagged
\* isCurrent has the networkAddress and broadcastAddress of calculateSubnet.
C12_CalculatorAgreesWithTable == BothCase => ResultsAgree

\* C12 amended: the same for 1 <= baseCidr <= cidr <= 32.
C12_CalculatorAgreesWithTablePositiveBase == (BothCase /\ parentCidr[1] >= 1) => ResultsAgree

\* 192.168.1.10, cidr 26, base 24: 4 subnets in both results, and the
\* flagged first row is the calculator's 192.168.1.0 - 192.168.1.63
C12_Witness ==
  /\ BothCase
  /\ ip = Dotted(<<192, 168, 1, 10>>) /\ cidr = 26 /\ parentCidr = <<24>>
  /\ ret.result.subnetsCreated = <<0, 4>>
  /\ ret.table.totalCount = <<0, 4>>
  /\ ret.table.rows[1].isCurrent
  /\ ret.result.networkAddress = Dotted(<<192, 168, 1, 0>>)
  /\ ret.result.broadcastAddress = Dotted(<<192, 168, 1, 63>>)

\* 128.0.0.0, cidr 8, base 0: calculateSubnet counts 1 subnet (no borrowing
\* from a base of 0) and generateSubnetTable 256
C12_CountsDiffer ==
  /\ BothCase
  /\ ip = Dotted(<<128, 0, 0, 0>>) /\ cidr = 8 /\ parentCidr = <<0>>
  /\ ret.result.subnetsCreated = <<0, 1>>
  /\ ret.table.totalCount = <<0, 256>>

====
